---- MODULE Spec2Model ----
(***************************************************************************)
(* ParkingApp: the reservation HTTP function (parking-reservation/main.py) *)
(* and the e-mail dispatcher (send-email/main.py).                         *)
(*                                                                         *)
(* The reservation function runs as independent invocations that share a   *)
(* Firestore collection (store) and a Pub/Sub topic (queue).  An           *)
(* invocation interacts with the outside world at three places: the        *)
(* availability query, the document write and the publish.  Each of them   *)
(* is one step of the model and each can fail.                             *)
(***************************************************************************)
EXTENDS Integers, Sequences, FiniteSets, TLC

VARIABLES
    store,          \* Firestore collection 'reservations': sequence of documents
    queue,          \* messages published to the Pub/Sub topic, in order
    pc,             \* pc[p]: position of invocation slot p inside reserve()
    req,            \* req[p]: the request the invocation is serving
    available,      \* available[p]: local available_spots
    spot,           \* spot[p]: local spot (requested or auto-assigned)
    doc_id,         \* doc_id[p]: id of the document written (0: none)
    queried,        \* queried[p]: "no" | "ok" | "failed": the store query made
    published,      \* published[p]: messages the invocation has published
    resp,           \* resp[p]: the response returned
    started,        \* number of requests received so far
    successes,      \* history: the success results returned so far
    dpc,            \* position of the send_email invocation
    event,          \* the Pub/Sub message the invocation was handed
    email_data,     \* to, subject, message taken from the decoded payload
    creds,          \* the credential loaded from the bucket
    attempts,       \* calls of the mail API send made by the invocation
    derror,         \* the exception raised inside the try block ("": none)
    sent,           \* e-mails the mail API has accepted, in order
    deliveries      \* history: the messages the queue has delivered, in order

rvars == <<store, queue, pc, req, available, spot, doc_id, queried, published,
           resp, started, successes>>

dvars == <<dpc, event, email_data, creds, attempts, derror, sent, deliveries>>

-----------------------------------------------------------------------------
(* Bounds *)

MaxRequests == 2        \* requests received in one behaviour of Spec
MaxFree == 1            \* a pre-booked zone has at most this many free spots
MaxSeqRequests == 57    \* requests received in one behaviour of SpecSeq
MaxDeliveries == 3      \* messages delivered in one behaviour of SpecDispatch
MaxSerialRequests == 3  \* requests received in one behaviour of SpecSerial

Calls == {1, 2}         \* invocation slots that may run concurrently

-----------------------------------------------------------------------------
(* Values *)

Absent == ""            \* None or the empty string: falsy in Python

zone_limits == [A |-> 55, B |-> 52, C |-> 45]

ValidZones == {"A", "B", "C"}

Day == "2024-06-01"
OtherDay == "2024-06-02"
User == "u@example.com"

\* f"{zone}{i}"
SpotName(zone, i) == zone \o ToString(i)

Range(s) == {s[i] : i \in 1..Len(s)}

-----------------------------------------------------------------------------
(* get_available_spots *)

\* variant: the date filter is applied to the wrong field
QueryReservations_WrongField(st, zone, date) ==
    {i \in 1..Len(st) : st[i].zone = zone /\ st[i].email = date}

\* the documents the query .where(zone).where(date).stream() yields
QueryReservations(st, zone, date) ==
    {i \in 1..Len(st) : st[i].zone = zone /\ st[i].date = date}

used_spots(st, zone, date) ==
    {st[i].spot : i \in QueryReservations(st, zone, date)}

\* variant: range(1, zone_limits[zone]) leaves the last spot out
all_spots_short(zone) == [i \in 1..(zone_limits[zone] - 1) |-> SpotName(zone, i)]

all_spots(zone) == [i \in 1..zone_limits[zone] |-> SpotName(zone, i)]

\* variant: a failed query counts as "nothing reserved"
get_available_spots_failopen(st, zone, date, ok) ==
    IF zone \notin DOMAIN zone_limits THEN <<>>
    ELSE LET used == IF ok THEN used_spots(st, zone, date) ELSE {}
             free(s) == s \notin used
         IN  SelectSeq(all_spots(zone), free)

\* variant: zone_limits.get(zone, 1): an unknown zone has one spot
get_available_spots_default(st, zone, date, ok) ==
    IF ~ok THEN <<>>
    ELSE LET used == used_spots(st, zone, date)
             free(s) == s \notin used
             limit == IF zone \in DOMAIN zone_limits THEN zone_limits[zone] ELSE 1
         IN  SelectSeq([i \in 1..limit |-> SpotName(zone, i)], free)

\* ok = FALSE: the query raised; the except branch returns [].
\* A zone that is no key of zone_limits raises KeyError at the comprehension,
\* which the same except branch turns into [].
get_available_spots(st, zone, date, ok) ==
    IF ~ok THEN <<>>
    ELSE IF zone \notin DOMAIN zone_limits THEN <<>>
    ELSE LET used == used_spots(st, zone, date)
             free(s) == s \notin used
         IN  SelectSeq(all_spots(zone), free)

-----------------------------------------------------------------------------
(* Documents, messages, responses *)

\* reservation_data, stored under the generated document id
Reservation(id, zone, s, date, email) ==
    [id |-> id, zone |-> zone, spot |-> s, date |-> date, email |-> email,
     status |-> "confirmed"]

\* doc_ref = collection.document(): a fresh id
NewId(st) == Len(st) + 1

\* variant: the reservation identifier is left out of the text
ConfirmationText_NoId(zone, s, date, id) ==
    [zone |-> zone, spot |-> s, date |-> date, reservationId |-> 0]

\* the f-string of the confirmation: the values it interpolates
ConfirmationText(zone, s, date, id) ==
    [zone |-> zone, spot |-> s, date |-> date, reservationId |-> id]

\* publish_email: json.dumps of {to, subject, message}
EmailPayload(to, subject, message) ==
    [wire |-> "json",
     obj |-> [to |-> to, subject |-> subject, message |-> message]]

Response(status, error, s, id, spots) ==
    [status |-> status, error |-> error, spot |-> s, reservationId |-> id,
     availableSpots |-> spots]

ErrorResponse(status, error) == Response(status, error, Absent, 0, <<>>)

NoResponse == Response(0, "", Absent, 0, <<>>)

NoRequest ==
    [method |-> "", path |-> "", json |-> FALSE, zone |-> Absent,
     date |-> Absent, email |-> Absent, spot |-> Absent]

-----------------------------------------------------------------------------
(* Requests the model draws from *)

Request(method, path, json, zone, date, email, s) ==
    [method |-> method, path |-> path, json |-> json, zone |-> zone,
     date |-> date, email |-> email, spot |-> s]

InZones == {"A", "B", "D", Absent}
InDates == {Day, Absent}
InEmails == {User, Absent}
InSpots == {Absent, "A1", "B1"}

Requests ==
    {Request("OPTIONS", "/", FALSE, Absent, Absent, Absent, Absent),
     Request("PUT", "/", TRUE, "A", Day, User, Absent),
     Request("GET", "/", FALSE, "A", Day, Absent, Absent),
     Request("POST", "/", FALSE, Absent, Absent, Absent, Absent)}
    \cup {Request("GET", "/available-spots", FALSE, z, d, Absent, Absent) :
            z \in InZones, d \in InDates}
    \cup {Request("POST", "/", TRUE, z, d, e, s) :
            z \in InZones, d \in InDates, e \in InEmails, s \in InSpots}

\* SpecSeq: reservations without a spot for one zone and date
SeqRequests == {Request("POST", "/", TRUE, "A", Day, User, Absent)}

\* request.path.endswith('/available-spots')
IsAvailableSpotsPath(path) == path = "/available-spots"

-----------------------------------------------------------------------------
(* The store as earlier invocations left it *)

\* k reservations without a requested spot made one after another for
\* (zone, date), after the documents of st: they hold the spots 1..k
BookedTimes(st, zone, date, email, k) ==
    st \o [i \in 1..k |->
             Reservation(Len(st) + i, zone, SpotName(zone, i), date, email)]

InitStores ==
    {<<>>} \cup
    {BookedTimes(BookedTimes(<<>>, "A", OtherDay, User, 1), "A", Day, User, k) :
        k \in (zone_limits["A"] - MaxFree)..zone_limits["A"]}

-----------------------------------------------------------------------------
(* reserve(request) *)

\* variant: the zone check comes first
Validate_ZoneFirst(r) ==
    IF r.zone \notin ValidZones
      THEN "Invalid zone"
    ELSE IF r.zone = Absent \/ r.date = Absent \/ r.email = Absent
      THEN "Missing required fields"
    ELSE ""

\* the two validation checks of a POST, in the order of the code:
\* the error message, or "" when the request passes
Validate(r) ==
    IF r.zone = Absent \/ r.date = Absent \/ r.email = Absent
      THEN "Missing required fields"
    ELSE IF r.zone \notin ValidZones
      THEN "Invalid zone"
    ELSE ""

\* variant: a requested spot is taken without looking it up
SpotSelection_NoCheck(requested, avail) ==
    IF requested # Absent
      THEN [error |-> "", spot |-> requested]
    ELSE IF avail = <<>>
      THEN [error |-> "No available spots in this zone for selected date",
            spot |-> Absent]
    ELSE [error |-> "", spot |-> avail[1]]

\* variant: the last available spot is assigned instead of the first
SpotSelection_Last(requested, avail) ==
    IF requested # Absent
      THEN IF requested \notin Range(avail)
             THEN [error |-> "Selected spot is no longer available", spot |-> Absent]
             ELSE [error |-> "", spot |-> requested]
    ELSE IF avail = <<>>
      THEN [error |-> "No available spots in this zone for selected date",
            spot |-> Absent]
    ELSE [error |-> "", spot |-> avail[Len(avail)]]

\* the availability check of a POST: the spot to reserve, or the error
SpotSelection(requested, avail) ==
    IF requested # Absent
      THEN IF requested \notin Range(avail)
             THEN [error |-> "Selected spot is no longer available", spot |-> Absent]
             ELSE [error |-> "", spot |-> requested]
    ELSE IF avail = <<>>
      THEN [error |-> "No available spots in this zone for selected date",
            spot |-> Absent]
    ELSE [error |-> "", spot |-> avail[1]]

Finish(p, response) ==
    /\ pc' = [pc EXCEPT ![p] = "done"]
    /\ resp' = [resp EXCEPT ![p] = response]

\* routing and validation: everything up to the first store access
Receive(p, r) ==
    /\ pc[p] = "idle"
    /\ req' = [req EXCEPT ![p] = r]
    /\ started' = started + 1
    /\ IF r.method = "OPTIONS"
         THEN Finish(p, ErrorResponse(204, ""))
       ELSE IF r.method = "GET" /\ IsAvailableSpotsPath(r.path)
         THEN IF r.zone = Absent \/ r.date = Absent
                THEN Finish(p, ErrorResponse(400, "Missing zone or date parameter"))
                ELSE pc' = [pc EXCEPT ![p] = "query"] /\ UNCHANGED resp
       ELSE IF r.method = "POST"
         THEN IF ~r.json
                THEN Finish(p, ErrorResponse(500, "exception"))
              ELSE IF Validate(r) # ""
                THEN Finish(p, ErrorResponse(400, Validate(r)))
              ELSE pc' = [pc EXCEPT ![p] = "query"] /\ UNCHANGED resp
       ELSE Finish(p, ErrorResponse(405, "Method not allowed"))
    /\ UNCHANGED <<store, queue, available, spot, doc_id, queried, published,
                   successes>>

\* get_available_spots and what the caller does with its result
Query(p, ok) ==
    /\ pc[p] = "query"
    /\ LET avail == get_available_spots(store, req[p].zone, req[p].date, ok)
       IN  /\ available' = [available EXCEPT ![p] = avail]
           /\ queried' = [queried EXCEPT ![p] = IF ok THEN "ok" ELSE "failed"]
           /\ IF req[p].method = "GET"
                THEN /\ Finish(p, Response(200, "", Absent, 0, avail))
                     /\ UNCHANGED spot
              ELSE LET sel == SpotSelection(req[p].spot, avail)
                   IN  IF sel.error # ""
                         THEN /\ Finish(p, ErrorResponse(400, sel.error))
                              /\ UNCHANGED spot
                         ELSE /\ spot' = [spot EXCEPT ![p] = sel.spot]
                              /\ pc' = [pc EXCEPT ![p] = "write"]
                              /\ UNCHANGED resp
    /\ UNCHANGED <<store, queue, req, doc_id, published, started, successes>>

\* variant: the document reference is created but never set
Write_NoPersist(p, ok) ==
    /\ pc[p] = "write"
    /\ IF ok
         THEN /\ doc_id' = [doc_id EXCEPT ![p] = NewId(store)]
              /\ pc' = [pc EXCEPT ![p] = "publish"]
              /\ UNCHANGED resp
         ELSE /\ Finish(p, ErrorResponse(500, "exception"))
              /\ UNCHANGED doc_id
    /\ UNCHANGED <<store, queue, req, available, spot, queried, published, started,
                   successes>>

\* doc_ref = db.collection('reservations').document(); doc_ref.set(...)
Write(p, ok) ==
    /\ pc[p] = "write"
    /\ IF ok
         THEN LET id == NewId(store)
              IN  /\ store' = Append(store, Reservation(id, req[p].zone, spot[p],
                                                       req[p].date, req[p].email))
                  /\ doc_id' = [doc_id EXCEPT ![p] = id]
                  /\ pc' = [pc EXCEPT ![p] = "publish"]
                  /\ UNCHANGED resp
         ELSE /\ Finish(p, ErrorResponse(500, "exception"))
              /\ UNCHANGED <<store, doc_id>>
    /\ UNCHANGED <<queue, req, available, spot, queried, published, started,
                   successes>>

\* publish_email(...) and the success response after it
Publish(p, ok) ==
    /\ pc[p] = "publish"
    /\ IF ok
         THEN /\ queue' = Append(queue,
                    EmailPayload(req[p].email, "Parking Reservation Confirmation",
                        ConfirmationText(req[p].zone, spot[p], req[p].date,
                                         doc_id[p])))
              /\ published' = [published EXCEPT ![p] = @ + 1]
              /\ Finish(p, Response(200, "", spot[p], doc_id[p], <<>>))
              /\ successes' = successes \cup
                    {[zone |-> req[p].zone, date |-> req[p].date,
                      spot |-> spot[p], reservationId |-> doc_id[p]]}
         ELSE /\ Finish(p, ErrorResponse(500, "exception"))
              /\ UNCHANGED <<queue, published, successes>>
    /\ UNCHANGED <<store, req, available, spot, doc_id, queried, started>>

\* the invocation is over; the platform starts the next one afresh
Recycle(p) ==
    /\ pc[p] = "done"
    /\ pc' = [pc EXCEPT ![p] = "idle"]
    /\ req' = [req EXCEPT ![p] = NoRequest]
    /\ available' = [available EXCEPT ![p] = <<>>]
    /\ spot' = [spot EXCEPT ![p] = Absent]
    /\ doc_id' = [doc_id EXCEPT ![p] = 0]
    /\ queried' = [queried EXCEPT ![p] = "no"]
    /\ published' = [published EXCEPT ![p] = 0]
    /\ resp' = [resp EXCEPT ![p] = NoResponse]
    /\ UNCHANGED <<store, queue, started, successes>>

-----------------------------------------------------------------------------
(* send_email(cloud_event) *)

NoEmail == [to |-> "", subject |-> "", message |-> ConfirmationText("", "", "", 0)]

NoEvent == [wire |-> "", obj |-> NoEmail]

NoCreds == [expired |-> FALSE, refresh_token |-> FALSE]

\* a confirmation as reserve publishes it
SampleEmail ==
    EmailPayload(User, "Parking Reservation Confirmation",
                 ConfirmationText("A", "A1", Day, 1))

\* messages on the topic: the confirmation, bytes that are no JSON, and JSON
\* objects that lack one of the three keys
Events ==
    {SampleEmail,
     [wire |-> "text", obj |-> SampleEmail.obj],
     [wire |-> "json", obj |-> [subject |-> "s", message |-> SampleEmail.obj.message]],
     [wire |-> "json", obj |-> [to |-> User, message |-> SampleEmail.obj.message]],
     [wire |-> "json", obj |-> [to |-> User, subject |-> "s"]]}

\* the credential objects token.pickle may hold
Credentials == [expired : BOOLEAN, refresh_token : BOOLEAN]

\* variant: the exception is logged and swallowed
Outcome_Swallow(error) == "returned"

\* except Exception as e: print(...); raise
Outcome(error) == IF error # "" THEN "raised" ELSE "returned"

\* an exception inside the try block ends the invocation
Raise(error) ==
    /\ derror' = error
    /\ dpc' = Outcome(error)

\* the queue runtime hands a message to a new invocation
Deliver(e) ==
    /\ dpc = "idle"
    /\ event' = e
    /\ deliveries' = Append(deliveries, e)
    /\ dpc' = "decode"
    /\ UNCHANGED <<email_data, creds, attempts, derror, sent>>

\* base64.b64decode(...).decode('utf-8'); json.loads; the three subscripts
Decode ==
    /\ dpc = "decode"
    /\ IF event.wire # "json"
         THEN Raise("decode") /\ UNCHANGED email_data
       ELSE IF ~({"to", "subject", "message"} \subseteq DOMAIN event.obj)
         THEN Raise("missing field") /\ UNCHANGED email_data
       ELSE /\ email_data' = [to |-> event.obj.to, subject |-> event.obj.subject,
                              message |-> event.obj.message]
            /\ dpc' = "fetch"
            /\ UNCHANGED derror
    /\ UNCHANGED <<event, creds, attempts, sent, deliveries>>

\* pickle.loads(blob.download_as_bytes())
Fetch(ok, c) ==
    /\ dpc = "fetch"
    /\ IF ok
         THEN /\ creds' = c
              /\ dpc' = IF c.expired /\ c.refresh_token THEN "refresh" ELSE "send"
              /\ UNCHANGED derror
         ELSE Raise("credential fetch") /\ UNCHANGED creds
    /\ UNCHANGED <<event, email_data, attempts, sent, deliveries>>

\* creds.refresh(Request())
Refresh(ok) ==
    /\ dpc = "refresh"
    /\ IF ok
         THEN /\ creds' = [creds EXCEPT !.expired = FALSE]
              /\ dpc' = "send"
              /\ UNCHANGED derror
         ELSE Raise("credential refresh") /\ UNCHANGED creds
    /\ UNCHANGED <<event, email_data, attempts, sent, deliveries>>

\* variant: an e-mail already accepted once is not submitted again
Send_Dedup(ok) ==
    /\ dpc = "send"
    /\ IF email_data \in Range(sent)
         THEN /\ dpc' = "returned"
              /\ UNCHANGED <<attempts, derror, sent>>
       ELSE IF ok /\ ~creds.expired
         THEN /\ attempts' = attempts + 1
              /\ sent' = Append(sent, email_data)
              /\ dpc' = "returned"
              /\ UNCHANGED derror
       ELSE /\ attempts' = attempts + 1
            /\ derror' = "mail api"
            /\ dpc' = "raised"
            /\ UNCHANGED sent
    /\ UNCHANGED <<event, email_data, creds, deliveries>>

\* service.users().messages().send(...).execute(): one call; an expired
\* credential is never accepted
Send(ok) ==
    /\ dpc = "send"
    /\ attempts' = attempts + 1
    /\ IF ok /\ ~creds.expired
         THEN /\ sent' = Append(sent, email_data)
              /\ dpc' = Outcome("")
              /\ UNCHANGED derror
         ELSE /\ Raise(IF creds.expired THEN "credential expired" ELSE "mail api")
              /\ UNCHANGED sent
    /\ UNCHANGED <<event, email_data, creds, deliveries>>

\* the invocation is over; the next delivery starts afresh
DRecycle ==
    /\ dpc \in {"raised", "returned"}
    /\ dpc' = "idle"
    /\ event' = NoEvent
    /\ email_data' = NoEmail
    /\ creds' = NoCreds
    /\ attempts' = 0
    /\ derror' = ""
    /\ UNCHANGED <<sent, deliveries>>

-----------------------------------------------------------------------------
(* Specifications *)

vars == <<rvars, dvars>>

InitCalls ==
    /\ queue = <<>>
    /\ pc = [p \in Calls |-> "idle"]
    /\ req = [p \in Calls |-> NoRequest]
    /\ available = [p \in Calls |-> <<>>]
    /\ spot = [p \in Calls |-> Absent]
    /\ doc_id = [p \in Calls |-> 0]
    /\ queried = [p \in Calls |-> "no"]
    /\ published = [p \in Calls |-> 0]
    /\ resp = [p \in Calls |-> NoResponse]
    /\ started = 0
    /\ successes = {}

InitDispatcher ==
    /\ dpc = "idle"
    /\ event = NoEvent
    /\ email_data = NoEmail
    /\ creds = NoCreds
    /\ attempts = 0
    /\ derror = ""
    /\ sent = <<>>
    /\ deliveries = <<>>

Init ==
    /\ store \in InitStores
    /\ InitCalls
    /\ InitDispatcher

DoReceive ==
    \E p \in Calls, r \in Requests :
        started < MaxRequests /\ Receive(p, r) /\ UNCHANGED dvars
DoQuery == \E p \in Calls, ok \in BOOLEAN : Query(p, ok) /\ UNCHANGED dvars
DoWrite == \E p \in Calls, ok \in BOOLEAN : Write(p, ok) /\ UNCHANGED dvars
DoPublish == \E p \in Calls, ok \in BOOLEAN : Publish(p, ok) /\ UNCHANGED dvars
DoRecycle == \E p \in Calls : Recycle(p) /\ UNCHANGED dvars

Next == DoReceive \/ DoQuery \/ DoWrite \/ DoPublish \/ DoRecycle

Spec == Init /\ [][Next]_vars

\* invocations that do not overlap: slot 1 alone, from an empty store
InitSeq ==
    /\ store = <<>>
    /\ InitCalls
    /\ InitDispatcher

SeqReceive ==
    \E r \in SeqRequests :
        started < MaxSeqRequests /\ Receive(1, r) /\ UNCHANGED dvars
SeqQuery == \E ok \in BOOLEAN : Query(1, ok) /\ UNCHANGED dvars
SeqWrite == \E ok \in BOOLEAN : Write(1, ok) /\ UNCHANGED dvars
\* the topic accepts every message here: what is published does not matter
\* to the store
SeqPublish == Publish(1, TRUE) /\ UNCHANGED dvars
SeqRecycle == Recycle(1) /\ UNCHANGED dvars

NextSeq == SeqReceive \/ SeqQuery \/ SeqWrite \/ SeqPublish \/ SeqRecycle

SpecSeq == InitSeq /\ [][NextSeq]_vars

\* any requests, one invocation at a time: an invocation runs to completion
\* before the next one starts
SerialReceive ==
    \E r \in Requests :
        started < MaxSerialRequests /\ Receive(1, r) /\ UNCHANGED dvars
SerialQuery == \E ok \in BOOLEAN : Query(1, ok) /\ UNCHANGED dvars
SerialWrite == \E ok \in BOOLEAN : Write(1, ok) /\ UNCHANGED dvars
SerialPublish == \E ok \in BOOLEAN : Publish(1, ok) /\ UNCHANGED dvars
SerialRecycle == Recycle(1) /\ UNCHANGED dvars

NextSerial ==
    SerialReceive \/ SerialQuery \/ SerialWrite \/ SerialPublish \/ SerialRecycle

SpecSerial == Init /\ [][NextSerial]_vars

\* the dispatcher alone, fed by the queue
DoDeliver ==
    \E e \in Events :
        Len(deliveries) < MaxDeliveries /\ Deliver(e) /\ UNCHANGED rvars
DoDecode == Decode /\ UNCHANGED rvars
DoFetch == \E ok \in BOOLEAN, c \in Credentials : Fetch(ok, c) /\ UNCHANGED rvars
DoRefresh == \E ok \in BOOLEAN : Refresh(ok) /\ UNCHANGED rvars
DoSend == \E ok \in BOOLEAN : Send(ok) /\ UNCHANGED rvars
DoDRecycle == DRecycle /\ UNCHANGED rvars

NextDispatch ==
    DoDeliver \/ DoDecode \/ DoFetch \/ DoRefresh \/ DoSend \/ DoDRecycle

SpecDispatch == InitSeq /\ [][NextDispatch]_vars

-----------------------------------------------------------------------------
(* Properties *)

\* the spots of a zone and their numbers
Universe(Z) == {SpotName(Z, i) : i \in 1..zone_limits[Z]}

SpotNumber(Z, s) == CHOOSE i \in 1..zone_limits[Z] : SpotName(Z, i) = s

\* the spots on stored reservations for (Z, D)
HeldSpots(st, Z, D) ==
    {st[i].spot : i \in {j \in 1..Len(st) : st[j].zone = Z /\ st[j].date = D}}

ValidFields(r) == r.zone \in ValidZones /\ r.date # Absent /\ r.email # Absent

\* a POST with a JSON body whose zone, date and email pass validation
ReservePost(p) == req[p].method = "POST" /\ req[p].json /\ ValidFields(req[p])

SpotUnavailable == "Selected spot is no longer available"
NoSpots == "No available spots in this zone for selected date"

\* invocation p performs its store query in this step
QueryStep(p) == pc[p] = "query" /\ pc'[p] # "query"

\* C1: no two stored (confirmed) reservations share zone, date and spot,
\* under any interleaving of reserve invocations.
C1_NoDoubleBooking ==
    \A i, j \in 1..Len(store) :
        (i # j /\ store[i].status = "confirmed" /\ store[j].status = "confirmed")
            => ~(/\ store[i].zone = store[j].zone
                 /\ store[i].date = store[j].date
                 /\ store[i].spot = store[j].spot)

WellFormedAvailability(res, st, Z, D) ==
    /\ Cardinality(Range(res)) = Len(res)
    /\ Range(res) \subseteq Universe(Z)
    /\ \A i \in 1..(Len(res) - 1) :
          SpotNumber(Z, res[i]) < SpotNumber(Z, res[i + 1])
    /\ Universe(Z) \ Range(res) = HeldSpots(st, Z, D)

\* C2 as stated: whatever the store holds, the result of every
\* get_available_spots call for a configured zone is duplicate-free, within
\* the zone's spots, ascending, and misses exactly the spots held by stored
\* reservations for that zone and date.
C2_AvailabilityAlways ==
    [][\A p \in Calls :
          (QueryStep(p) /\ req[p].zone \in ValidZones)
              => WellFormedAvailability(available'[p], store,
                                        req[p].zone, req[p].date)]_vars

\* C2 amended: the same, for every call whose store query succeeds; a call
\* whose query fails returns the empty sequence.
C2_AvailabilityWhenQueryOk ==
    [][\A p \in Calls :
          (QueryStep(p) /\ req[p].zone \in ValidZones)
              => IF queried'[p] = "ok"
                   THEN WellFormedAvailability(available'[p], store,
                                               req[p].zone, req[p].date)
                   ELSE available'[p] = <<>>]_vars

\* a successful query on a zone with one free spot left
C2_Witness ==
    \E p \in Calls :
        /\ queried[p] = "ok"
        /\ req[p].zone \in ValidZones
        /\ Len(available[p]) = 1
        /\ Cardinality(HeldSpots(store, req[p].zone, req[p].date)) >= 54

\* C3: once reserve has returned success with spot S for (zone, date), in
\* every later state a get_available_spots(zone, date) call, whether its
\* query succeeds or fails, returns a result without S.
C3_ReservedStaysExcluded ==
    \A s \in successes : \A ok \in BOOLEAN :
        s.spot \notin Range(get_available_spots(store, s.zone, s.date, ok))

\* a GET answered from a successful query after a success for the same zone
\* and date: the zone's other spots are listed, the reserved one is not
C3_Witness ==
    \E p \in Calls : \E s \in successes :
        /\ req[p].method = "GET" /\ pc[p] = "done" /\ queried[p] = "ok"
        /\ req[p].zone = s.zone /\ req[p].date = s.date
        /\ resp[p].status = 200
        /\ resp[p].availableSpots # <<>>
        /\ s.spot \notin Range(resp[p].availableSpots)

\* C4: a POST with valid zone, date and email and an explicit spot that is
\* not in the available set the invocation computed ends with status 400
\* "spot unavailable", has written no document and published no message.
C4_UnavailableSpotRejected ==
    \A p \in Calls :
        (/\ ReservePost(p)
         /\ req[p].spot # Absent
         /\ queried[p] # "no"
         /\ req[p].spot \notin Range(available[p]))
            => /\ pc[p] = "done"
               /\ resp[p].status = 400
               /\ resp[p].error = SpotUnavailable
               /\ doc_id[p] = 0
               /\ published[p] = 0

\* the requested spot is held by a stored reservation and the query succeeded
C4_Witness ==
    \E p \in Calls :
        /\ ReservePost(p)
        /\ queried[p] = "ok"
        /\ req[p].spot \in HeldSpots(store, req[p].zone, req[p].date)
        /\ req[p].spot \notin Range(available[p])
        /\ pc[p] = "done"

\* C5: a POST whose body names a zone other than A, B, C (or none) ends with
\* status 400: "Missing required fields" when zone, date or email is
\* missing, otherwise "Invalid zone"; it makes no store query, writes no
\* document and publishes no message.
C5_InvalidZoneRejected ==
    \A p \in Calls :
        (/\ req[p].method = "POST" /\ req[p].json
         /\ req[p].zone \notin {"A", "B", "C"})
            => /\ pc[p] = "done"
               /\ resp[p].status = 400
               /\ resp[p].error =
                     IF req[p].zone = Absent \/ req[p].date = Absent
                            \/ req[p].email = Absent
                       THEN "Missing required fields"
                       ELSE "Invalid zone"
               /\ queried[p] = "no"
               /\ doc_id[p] = 0
               /\ published[p] = 0

\* zone D with date and email present
C5_Witness ==
    \E p \in Calls :
        /\ req[p].method = "POST" /\ req[p].json
        /\ req[p].zone = "D" /\ req[p].date # Absent /\ req[p].email # Absent
        /\ pc[p] = "done"
        /\ resp[p].error = "Invalid zone"

\* a POST with valid fields and no requested spot
AutoPost(p) == ReservePost(p) /\ req[p].spot = Absent

\* the spots held for p's zone and date by documents other than p's own
HeldByOthers(p) ==
    {store[i].spot :
        i \in {j \in 1..Len(store) : /\ store[j].zone = req[p].zone
                                     /\ store[j].date = req[p].date
                                     /\ store[j].id # doc_id[p]}}

\* the lowest-numbered spot of zone Z outside held
LowestFree(Z, held) ==
    SpotName(Z, CHOOSE i \in 1..zone_limits[Z] :
                    /\ SpotName(Z, i) \notin held
                    /\ \A j \in 1..(i - 1) : SpotName(Z, j) \in held)

\* the first half of C6, for invocations that do not overlap: the spot
\* assigned is the first (lowest-numbered) entry of the available set, which
\* after a successful query is the lowest-numbered spot not reserved; the
\* invocation ends with 400 "no spots" exactly when the set is empty.
AutoAssignment(p) ==
    (AutoPost(p) /\ queried[p] # "no") =>
        /\ (pc[p] = "done" /\ resp[p].status = 400 /\ resp[p].error = NoSpots)
              <=> available[p] = <<>>
        /\ available[p] # <<>> =>
              /\ spot[p] = LowestFree(req[p].zone, HeldByOthers(p))
              /\ pc[p] = "done" /\ resp[p].status = 200 => resp[p].spot = spot[p]
        /\ queried[p] = "ok" =>
              (available[p] = <<>>
                  <=> Universe(req[p].zone) \subseteq HeldByOthers(p))

\* C6 as stated: AutoAssignment, and when invocations run one after another
\* from an empty store the k-th call is assigned spot number k, for every k
\* up to the capacity.
C6_KthCallGetsSpotK ==
    \A p \in Calls :
        /\ AutoAssignment(p)
        /\ (AutoPost(p) /\ queried[p] # "no"
                /\ started <= zone_limits[req[p].zone])
              => spot[p] = SpotName(req[p].zone, started)

\* C6 amended: AutoAssignment, and when invocations run one after another
\* from an empty store a call whose query succeeds and finds n documents
\* for (zone, date) is assigned spot number n + 1 (n below the capacity):
\* the k-th call is assigned spot k when each of the k - 1 calls before it
\* wrote its document and its own query succeeds.
C6_NextSpotAfterStored ==
    \A p \in Calls :
        /\ AutoAssignment(p)
        /\ (AutoPost(p) /\ queried[p] = "ok") =>
              LET n == Cardinality(HeldByOthers(p))
              IN  /\ n < zone_limits[req[p].zone]
                        => spot[p] = SpotName(req[p].zone, n + 1)
                  /\ (n = started - 1 /\ started <= zone_limits[req[p].zone])
                        => spot[p] = SpotName(req[p].zone, started)

\* the zone has been filled one call after another and the next call is
\* refused
C6_Witness ==
    \E p \in Calls :
        /\ AutoPost(p) /\ queried[p] = "ok"
        /\ Len(store) = zone_limits[req[p].zone]
        /\ store[Len(store)].spot = SpotName(req[p].zone, zone_limits[req[p].zone])
        /\ pc[p] = "done" /\ resp[p].error = NoSpots

\* C7: when the document has been written and the publish fails, the
\* reservation stays in the store and the invocation still returns the
\* success result (assigned spot and reservation identifier).
C7_PublishFailureNotSurfaced ==
    \A p \in Calls :
        (pc[p] = "done" /\ doc_id[p] # 0 /\ published[p] = 0)
            => /\ \E i \in 1..Len(store) : store[i].id = doc_id[p]
               /\ resp[p].status = 200
               /\ resp[p].spot = spot[p]
               /\ resp[p].reservationId = doc_id[p]

\* the response a request gets when every spot of its zone is reserved
ResponseWhenFull(r) ==
    IF r.method = "GET" THEN Response(200, "", Absent, 0, <<>>)
    ELSE ErrorResponse(400, IF r.spot # Absent THEN SpotUnavailable ELSE NoSpots)

\* C8: an invocation whose store query failed got the empty sequence from
\* get_available_spots and has ended as for a fully booked zone: a GET with
\* 200 and an empty list, a POST with 400 (never 500), no document written,
\* no message published.
C8_QueryFailureLooksFull ==
    \A p \in Calls :
        queried[p] = "failed"
            => /\ available[p] = <<>>
               /\ pc[p] = "done"
               /\ resp[p] = ResponseWhenFull(req[p])
               /\ req[p].method = "GET" =>
                     resp[p].status = 200 /\ resp[p].availableSpots = <<>>
               /\ req[p].method = "POST" =>
                     /\ resp[p].status = 400
                     /\ resp[p].error \in {NoSpots, SpotUnavailable}
               /\ doc_id[p] = 0
               /\ published[p] = 0

\* a reservation refused after a failed query although nothing is reserved
C8_Witness ==
    \E p \in Calls :
        /\ queried[p] = "failed"
        /\ ReservePost(p)
        /\ HeldSpots(store, req[p].zone, req[p].date) = {}
        /\ pc[p] = "done"

\* the messages on the topic that carry reservation identifier id
MessagesFor(id) ==
    {i \in 1..Len(queue) : queue[i].obj.message.reservationId = id}

\* C9: a POST that has returned success has published exactly one message;
\* the message is addressed to the request's email and carries the zone, the
\* assigned spot, the date and the identifier of the document it wrote.
C9_SuccessPublishedOnce ==
    \A p \in Calls :
        (pc[p] = "done" /\ req[p].method = "POST" /\ resp[p].status = 200)
            => /\ published[p] = 1
               /\ resp[p].reservationId = doc_id[p]
               /\ \E d \in 1..Len(store) :
                     /\ store[d].id = doc_id[p]
                     /\ store[d].spot = resp[p].spot
                     /\ store[d].email = req[p].email
               /\ Cardinality(MessagesFor(doc_id[p])) = 1
               /\ \A i \in MessagesFor(doc_id[p]) :
                     /\ queue[i].obj.to = req[p].email
                     /\ queue[i].obj.message.zone = req[p].zone
                     /\ queue[i].obj.message.spot = resp[p].spot
                     /\ queue[i].obj.message.date = req[p].date

\* a success response
C9_Witness ==
    \E p \in Calls :
        /\ pc[p] = "done" /\ req[p].method = "POST" /\ resp[p].status = 200
        /\ resp[p].reservationId # 0

\* the payload cannot be decoded or lacks one of to, subject, message
BadPayload(e) ==
    e.wire # "json" \/ ~({"to", "subject", "message"} \subseteq DOMAIN e.obj)

\* C10: a send_email invocation in which anything failed ends by raising,
\* never by returning; an undecodable or incomplete payload raises before
\* any credential or mail call; the mail API send is called at most once
\* per invocation, and an invocation returns only after that one call.
C10_FailuresPropagate ==
    /\ derror # "" => dpc = "raised"
    /\ dpc = "raised" => derror # ""
    /\ (dpc \notin {"idle", "decode"} /\ BadPayload(event))
          => dpc = "raised" /\ attempts = 0
    /\ attempts <= 1
    /\ dpc = "returned" => derror = "" /\ attempts = 1
    /\ (derror \in {"decode", "missing field", "credential fetch",
                    "credential refresh"}) => attempts = 0

\* the mail API call failed: the invocation has raised after one attempt
C10_Witness ==
    dpc = "raised" /\ derror = "mail api" /\ attempts = 1

\* C11: a credential that is expired and has a refresh token is refreshed
\* before the send; an invocation whose credential is expired and has no
\* refresh token ends by raising without having called the mail API send.
C11_ExpiredCredentialStopsSend ==
    /\ (dpc = "send" /\ creds.refresh_token) => ~creds.expired
    /\ (creds.expired /\ ~creds.refresh_token)
          => /\ dpc # "returned"
             /\ attempts = 0
             /\ dpc = "raised" => derror = "credential unavailable"

\* how often x occurs in the sequence q
Occurrences(q, x) == Cardinality({i \in 1..Len(q) : q[i] = x})

\* C12: a delivery completes without error exactly in the step in which the
\* mail API accepts one e-mail built from the delivered message, whatever
\* was sent before; so the e-mails sent for a message never outnumber its
\* deliveries, and a message delivered again after a successful send is
\* sent again.
C12_EveryDeliverySends ==
    [][/\ (dpc # "returned" /\ dpc' = "returned")
            => sent' = Append(sent, [to |-> event.obj.to,
                                     subject |-> event.obj.subject,
                                     message |-> event.obj.message])
       /\ sent' # sent
            => /\ dpc = "send" /\ dpc' = "returned"
               /\ Len(sent') = Len(sent) + 1
       /\ \A e \in Events :
             e.wire = "json"
                => Occurrences(sent', e.obj) <= Occurrences(deliveries', e)]_vars

\* the same message delivered twice and sent twice
C12_Witness ==
    /\ Len(sent) = 2 /\ sent[1] = sent[2]
    /\ Len(deliveries) = 2 /\ deliveries[1] = deliveries[2]
    /\ dpc = "returned"

\* the documents stored for (Z, D)
StoredFor(st, Z, D) == {i \in 1..Len(st) : st[i].zone = Z /\ st[i].date = D}

\* C13: when invocations do not overlap, after any sequence of requests
\* (store queries, writes and publishes may fail) no two documents share
\* zone, date and spot, and no (zone, date) holds more documents than the
\* zone has spots.
C13_SerialNoDoubleBooking ==
    \A k \in {<<store[i].zone, store[i].date>> : i \in 1..Len(store)} :
        LET docs == StoredFor(store, k[1], k[2])
        IN  /\ Cardinality({store[i].spot : i \in docs}) = Cardinality(docs)
            /\ Cardinality(docs) <= zone_limits[k[1]]

\* an invocation has written the last free spot of a zone
C13_Witness ==
    \E p \in Calls :
        /\ doc_id[p] # 0
        /\ Cardinality(StoredFor(store, req[p].zone, req[p].date))
              = zone_limits[req[p].zone]

\* the spots {zone}1..{zone}capacity of the three zones
SpotsOfZone ==
    [z \in {"A", "B", "C"} |->
        {SpotName(z, i) : i \in 1..(CASE z = "A" -> 55 [] z = "B" -> 52
                                      [] z = "C" -> 45)}]

\* C14: every stored reservation document has a zone among A, B, C, status
\* confirmed, a non-empty date and email, and a spot of its own zone:
\* {zone}1..{zone}capacity with capacities A: 55, B: 52, C: 45.
C14_DocumentsWellFormed ==
    \A i \in 1..Len(store) :
        /\ store[i].zone \in {"A", "B", "C"}
        /\ store[i].status = "confirmed"
        /\ store[i].date # Absent
        /\ store[i].email # Absent
        /\ store[i].spot \in SpotsOfZone[store[i].zone]

\* both invocations have written a document, one of them for a requested spot
C14_Witness ==
    \E p, q \in Calls :
        /\ p # q /\ doc_id[p] # 0 /\ doc_id[q] # 0
        /\ req[p].spot # Absent /\ req[q].spot = Absent

\* C15: every message on the topic carries the identifier of a document
\* that is in the store, with that document's zone, spot, date and email,
\* and the messages published never outnumber the stored documents.
C15_WriteBeforePublish ==
    /\ \A i \in 1..Len(queue) :
          \E d \in 1..Len(store) :
              /\ store[d].id = queue[i].obj.message.reservationId
              /\ store[d].zone = queue[i].obj.message.zone
              /\ store[d].spot = queue[i].obj.message.spot
              /\ store[d].date = queue[i].obj.message.date
              /\ store[d].email = queue[i].obj.to
    /\ Len(queue) <= Len(store)

\* one confirmation is on the topic while another invocation has written its
\* document and not yet published
C15_Witness ==
    /\ queue # <<>>
    /\ \E p \in Calls : pc[p] = "publish" /\ doc_id[p] # 0

\* the request invocation p serves in the step being taken
ServedRequest(p) == IF pc[p] = "idle" THEN req'[p] ELSE req[p]

\* C16: OPTIONS is answered 204; an unsupported method and a GET on another
\* path are answered 405; no step of an invocation serving a request other
\* than POST, and no step that answers a POST with 400, changes the store
\* or the topic, and such an invocation has written and published nothing;
\* the store changes only by one document of a POST that passed validation
\* and whose spot is in the available set it computed.
C16_OnlyAcceptedPostWrites ==
    [][/\ \A p \in Calls :
            pc'[p] # pc[p] =>
                LET r == ServedRequest(p)
                IN  /\ (r.method = "OPTIONS" /\ pc'[p] = "done")
                          => resp'[p].status = 204
                    /\ (/\ pc'[p] = "done"
                        /\ \/ r.method \notin {"OPTIONS", "GET", "POST"}
                           \/ r.method = "GET" /\ r.path # "/available-spots")
                          => resp'[p].status = 405
                    /\ (r.method # "POST"
                            \/ (pc'[p] = "done" /\ resp'[p].status = 400))
                          => /\ store' = store /\ queue' = queue
                             /\ doc_id'[p] = 0 /\ published'[p] = 0
       /\ store' # store =>
            \E p \in Calls :
                /\ pc[p] = "write" /\ ReservePost(p)
                /\ spot[p] \in Range(available[p])
                /\ store' = Append(store,
                       Reservation(doc_id'[p], req[p].zone, spot[p],
                                   req[p].date, req[p].email))]_vars

\* a preflight answered 204 beside a POST refused by the availability check
C16_Witness ==
    \E p, q \in Calls :
        /\ pc[p] = "done" /\ req[p].method = "OPTIONS" /\ resp[p].status = 204
        /\ pc[q] = "done" /\ req[q].method = "POST" /\ resp[q].status = 400
        /\ queried[q] = "ok"

\* C17: a GET on /available-spots with a date and a zone outside the
\* catalog is not rejected: it goes on to the availability lookup and is
\* answered 200 with an empty list, as for a fully booked zone.
C17_UnknownZoneListsNothing ==
    \A p \in Calls :
        (/\ req[p].method = "GET" /\ req[p].path = "/available-spots"
         /\ req[p].zone # Absent /\ req[p].zone \notin {"A", "B", "C"}
         /\ req[p].date # Absent)
            => /\ pc[p] \in {"query", "done"}
               /\ pc[p] = "done" =>
                     /\ queried[p] # "no"
                     /\ resp[p].status = 200
                     /\ resp[p].availableSpots = <<>>
                     /\ resp[p] = ResponseWhenFull(req[p])

\* zone D answered after a successful store query
C17_Witness ==
    \E p \in Calls :
        /\ req[p].method = "GET" /\ req[p].zone = "D" /\ req[p].date # Absent
        /\ pc[p] = "done" /\ queried[p] = "ok"

====
